---- MODULE Spec2Model ----
(***************************************************************************)
(* Inventory service (src/main.js): an in-memory registry of items, each   *)
(* optionally owning one photo file in the cache directory.  Every route   *)
(* handler is modelled step by step: a handler that awaits a file-system   *)
(* operation is split at the await, and the file-system effect itself is   *)
(* a step of its own, so that other requests interleave where the event    *)
(* loop lets them.                                                         *)
(***************************************************************************)
EXTENDS Integers, Sequences, FiniteSets, TLC

\* Bounds of the model.
MaxRequests == 3   \* requests the server accepts in one run
MaxReqs == 2       \* requests in flight at the same time
MaxTime == 2       \* values Date.now() takes

VARIABLES
    inventoryDB,   \* own properties of the inventoryDB object: key -> object reference
    heap,          \* objects by reference: the item objects and the function Object
    files,         \* the cache directory: path -> bytes
    now,           \* Date.now()
    reqs,          \* request slot -> the request being handled and its position
    uuids,         \* number of identifiers generated so far
    uploads,       \* number of temporary upload names generated so far
    registered,    \* ids answered with 201 by POST /register
    deleted,       \* ids whose DELETE answered 200
    resp,          \* the request that finished in the last step, with its response
    accepted       \* number of requests accepted so far

vars == <<inventoryDB, heap, files, now, reqs, uuids, uploads, registered, deleted, resp,
          accepted>>

----------------------------------------------------------------------------
\* Optional values: null / undefined / an absent field is None.
None == <<>>
Some(x) == <<x>>

\* JavaScript truthiness of an optional string: absent, null and "" are falsy.
Truthy(o) == o # None /\ o[1] # ""

\* Text of a value inside a template literal.
Text(o) == IF o = None THEN "undefined" ELSE o[1]

Slots == 1..MaxReqs

\* crypto.randomUUID(): a fresh identifier on every call.
randomUUID(n) == "u" \o ToString(n)

\* Name formidable gives an uploaded file inside uploadDir.
uploadName(n) == "upload_" \o ToString(n)

\* A photo path that leaves the id out.
newPhotoPath_NoId(id, t) == "photo_" \o ToString(t) \o ".jpg"

\* path.join(options.cache, `photo_${id}_${Date.now()}.jpg`)
newPhotoPath(id, t) == "photo_" \o id \o "_" \o ToString(t) \o ".jpg"

\* Properties every plain object inherits; inventoryDB = {} is a plain object,
\* so inventoryDB["constructor"] is the function Object.
ObjectPrototype == ("constructor" :> "Object")

\* The function Object as the handlers see it: no own enumerable properties,
\* and its "name" property is not writable.
ObjectFunction == [id |-> None, name |-> None, description |-> None, photoPath |-> None]

\* inventoryDB[id]: own property first, then the prototype chain.
Lookup(db, id) ==
    IF id \in DOMAIN db THEN Some(db[id])
    ELSE IF id \in DOMAIN ObjectPrototype THEN Some(ObjectPrototype[id])
    ELSE None

\* delete inventoryDB[id]
DeleteKey(db, id) == [k \in DOMAIN db \ {id} |-> db[k]]

\* The directory after an fs.unlink(p) that succeeds.
Unlinked(fsys, p) == [q \in DOMAIN fsys \ {p} |-> fsys[q]]

\* The directory after a file p was created or overwritten with bytes.
WrittenFile(fsys, p, bytes) ==
    [q \in DOMAIN fsys \cup {p} |-> IF q = p THEN bytes ELSE fsys[q]]

itemToClient(item) ==
    [id |-> item.id, name |-> item.name, description |-> item.description,
     photoUrl |-> IF Truthy(item.photoPath)
                  THEN Some("/inventory/" \o Text(item.id) \o "/photo")
                  ELSE None]

\* A search that extends the description for any flag that is present.
searchView_AnyFlag(item, flag) ==
    LET clientItem == itemToClient(item) IN
    IF flag # None /\ Truthy(clientItem.photoUrl)
    THEN [clientItem EXCEPT !.description =
             Some((IF Truthy(clientItem.description) THEN clientItem.description[1] ELSE "")
                  \o " [Photo Link: " \o clientItem.photoUrl[1] \o "]")]
    ELSE clientItem

\* Lines 389-392 and 427-430: the view returned by both search handlers.
searchView(item, flag) ==
    LET clientItem == itemToClient(item) IN
    IF flag = Some("on") /\ Truthy(clientItem.photoUrl)
    THEN [clientItem EXCEPT !.description =
             Some((IF Truthy(clientItem.description) THEN clientItem.description[1] ELSE "")
                  \o " [Photo Link: " \o clientItem.photoUrl[1] \o "]")]
    ELSE clientItem

\* item.name = v: ignored on the function Object, whose name is read-only.
SetName(h, ref, v) == IF ref = "Object" THEN h ELSE [h EXCEPT ![ref].name = Some(v)]

----------------------------------------------------------------------------
\* Inputs of the requests.
NameInputs == {None, Some("n1")}
DescriptionInputs == {None, Some("d1")}
UpdateNameInputs == {None, Some(""), Some("n2")}
UpdateDescriptionInputs == {None, Some(""), Some("d2")}
PhotoInputs == {None, Some("x")}
BodyInputs == {"", "y"}
FlagInputs == {None, Some("on"), Some("off")}

\* Ids a client can address: every identifier handed out (live or deleted) and
\* an inherited property name.
IdInputs == {randomUUID(n) : n \in 1..uuids} \cup {"constructor"}

IdleReq ==
    [route |-> "none", id |-> "", pc |-> "idle", status |-> 0, item |-> None,
     path |-> None, old |-> None, data |-> None, name |-> None, description |-> None,
     flag |-> None, ok |-> TRUE, body |-> {}]

Free(s) == reqs[s].pc = "idle"

\* A new request takes the lowest free slot.
Accepts(s) == Free(s) /\ \A t \in Slots : t < s => ~Free(t)

Quiescent == \A s \in Slots : Free(s)

Init ==
    /\ inventoryDB = << >>
    /\ heap = ("Object" :> ObjectFunction)
    /\ files = << >>
    /\ now = 1
    /\ reqs = [s \in Slots |-> IdleReq]
    /\ uuids = 0
    /\ uploads = 0
    /\ registered = {}
    /\ deleted = {}
    /\ resp = IdleReq
    /\ accepted = 0

\* Date.now(): the clock never goes back; it is only read when a photo path is
\* named, so it advances there.
Clock == now..MaxTime

\* The server accepts one more request.
Accept ==
    /\ accepted < MaxRequests
    /\ accepted' = accepted + 1

\* A handler that runs to its response without waiting.
Answer(r) == resp' = [r EXCEPT !.pc = "done"]

\* The request in slot s finishes with record r.
Finish(s, r) ==
    /\ reqs' = [reqs EXCEPT ![s] = IdleReq]
    /\ resp' = [r EXCEPT !.pc = "done"]

\* The request in slot s moves on without finishing.
Continue(s, r) ==
    /\ reqs' = [reqs EXCEPT ![s] = r]
    /\ resp' = IdleReq

----------------------------------------------------------------------------
\* POST /register, lines 145-151: the handler hands the request to formidable.
PostRegister(s, name, description, photo) ==
    /\ Accepts(s)
    /\ Continue(s, [IdleReq EXCEPT !.route = "POST /register", !.pc = "parse",
                       !.name = name, !.description = description, !.data = photo])
    /\ Accept
    /\ UNCHANGED <<inventoryDB, heap, files, now, uuids, uploads, registered, deleted>>

\* formidable reads the body: an uploaded photo is streamed into a fresh file
\* of the cache directory.  err: parsing failed; kept: on a failure the file
\* written so far is still in the directory (the handler itself removes
\* nothing on that branch).
FormParse(s, err, kept) ==
    LET r == reqs[s] IN
    /\ r.pc = "parse"
    /\ IF r.data # None
       THEN /\ uploads' = uploads + 1
            /\ files' = IF err /\ ~kept THEN files
                        ELSE WrittenFile(files, uploadName(uploads + 1), r.data[1])
            /\ Continue(s, [r EXCEPT !.pc = "callback", !.ok = ~err,
                                     !.path = Some(uploadName(uploads + 1))])
       ELSE /\ Continue(s, [r EXCEPT !.pc = "callback", !.ok = ~err])
            /\ UNCHANGED <<uploads, files>>
    /\ UNCHANGED <<inventoryDB, heap, now, uuids, registered, deleted, accepted>>

\* Lines 152-177: the callback of form.parse.  After a 400 for a request that
\* uploaded a photo the request stays until the removal of line 162 is over.
RegisterCallback(s) ==
    LET r == reqs[s]
        id == randomUUID(uuids + 1)
        newItem == [id |-> Some(id), name |-> r.name,
                    description |-> IF Truthy(r.description) THEN r.description ELSE Some(""),
                    photoPath |-> r.path]
    IN
    /\ r.pc = "callback"
    /\ IF ~r.ok
       THEN /\ Finish(s, [r EXCEPT !.status = 500])
            /\ UNCHANGED <<inventoryDB, heap, uuids, registered>>
       ELSE IF ~Truthy(r.name)
       THEN /\ IF r.path # None
               THEN Continue(s, [r EXCEPT !.pc = "unlinkUpload", !.status = 400])
               ELSE Finish(s, [r EXCEPT !.status = 400])
            /\ UNCHANGED <<inventoryDB, heap, uuids, registered>>
       ELSE /\ uuids' = uuids + 1
            /\ heap' = (id :> newItem) @@ heap
            /\ inventoryDB' = (id :> id) @@ inventoryDB
            /\ registered' = registered \cup {id}
            /\ Finish(s, [r EXCEPT !.status = 201, !.id = id, !.item = Some(id),
                                   !.body = {itemToClient(newItem)}])
    /\ UNCHANGED <<files, now, uploads, deleted, accepted>>

\* Line 162: fs.unlink(photo.filepath).catch(console.error), not awaited: the
\* removal happens after the 400 and may fail.
RegisterUnlink(s, ok) ==
    LET r == reqs[s] IN
    /\ r.pc = "unlinkUpload"
    /\ files' = IF ok /\ r.path[1] \in DOMAIN files THEN Unlinked(files, r.path[1]) ELSE files
    /\ Finish(s, [r EXCEPT !.ok = ok /\ r.path[1] \in DOMAIN files])
    /\ UNCHANGED <<inventoryDB, heap, now, uuids, uploads, registered, deleted, accepted>>

----------------------------------------------------------------------------
\* GET /inventory, lines 189-192.
GetInventory ==
    /\ Answer([IdleReq EXCEPT !.route = "GET /inventory", !.status = 200,
                  !.body = {itemToClient(heap[inventoryDB[k]]) : k \in DOMAIN inventoryDB}])
    /\ Accept
    /\ UNCHANGED <<inventoryDB, heap, files, now, reqs, uuids, uploads, registered, deleted>>

\* GET /inventory/:id, lines 213-217.
GetInventoryItem(id) ==
    LET item == Lookup(inventoryDB, id)
        r == [IdleReq EXCEPT !.route = "GET /inventory/:id", !.id = id]
    IN
    /\ IF item = None
       THEN Answer([r EXCEPT !.status = 404])
       ELSE Answer([r EXCEPT !.status = 200, !.item = item,
                             !.body = {itemToClient(heap[item[1]])}])
    /\ Accept
    /\ UNCHANGED <<inventoryDB, heap, files, now, reqs, uuids, uploads, registered, deleted>>

\* An update that overwrites the name with whatever was sent, empty or not.
PutInventory_Overwrite(id, name, description) ==
    LET item == Lookup(inventoryDB, id)
        h1 == IF name # None THEN SetName(heap, item[1], name[1]) ELSE heap
        h2 == IF Truthy(description)
              THEN [h1 EXCEPT ![item[1]].description = description] ELSE h1
        r == [IdleReq EXCEPT !.route = "PUT /inventory/:id", !.id = id,
                             !.name = name, !.description = description]
    IN
    /\ Accept
    /\ IF item = None
       THEN /\ Answer([r EXCEPT !.status = 404])
            /\ UNCHANGED <<inventoryDB, heap>>
       ELSE /\ heap' = h2
            /\ inventoryDB' = (id :> item[1]) @@ inventoryDB
            /\ Answer([r EXCEPT !.status = 200, !.item = item,
                                !.body = {itemToClient(h2[item[1]])}])
    /\ UNCHANGED <<files, now, reqs, uuids, uploads, registered, deleted>>

\* PUT /inventory/:id, lines 249-261.
PutInventory(id, name, description) ==
    LET item == Lookup(inventoryDB, id)
        h1 == IF Truthy(name) THEN SetName(heap, item[1], name[1]) ELSE heap
        h2 == IF Truthy(description)
              THEN [h1 EXCEPT ![item[1]].description = description] ELSE h1
        r == [IdleReq EXCEPT !.route = "PUT /inventory/:id", !.id = id,
                             !.name = name, !.description = description]
    IN
    /\ IF item = None
       THEN /\ Answer([r EXCEPT !.status = 404])
            /\ UNCHANGED <<inventoryDB, heap>>
       ELSE /\ heap' = h2
            /\ inventoryDB' = (id :> item[1]) @@ inventoryDB
            /\ Answer([r EXCEPT !.status = 200, !.item = item,
                                !.body = {itemToClient(h2[item[1]])}])
    /\ Accept
    /\ UNCHANGED <<files, now, reqs, uuids, uploads, registered, deleted>>

\* GET /search and POST /search, lines 383-394 and 421-432.
Search(route, id, flag) ==
    LET item == Lookup(inventoryDB, id)
        r == [IdleReq EXCEPT !.route = route, !.id = id, !.flag = flag]
    IN
    /\ IF item = None
       THEN Answer([r EXCEPT !.status = 404])
       ELSE Answer([r EXCEPT !.status = 200, !.item = item,
                             !.body = {searchView(heap[item[1]], flag)}])
    /\ Accept
    /\ UNCHANGED <<inventoryDB, heap, files, now, reqs, uuids, uploads, registered, deleted>>

GetSearch(id, includePhoto) == Search("GET /search", id, includePhoto)

PostSearch(id, has_photo) == Search("POST /search", id, has_photo)

----------------------------------------------------------------------------
\* DELETE /inventory/:id, lines 282-287 and, when the item has no photo, 292-293.
DeleteInventory(s, id) ==
    LET item == Lookup(inventoryDB, id)
        r == [IdleReq EXCEPT !.route = "DELETE /inventory/:id", !.id = id]
    IN
    /\ Accepts(s)
    /\ IF item = None
       THEN /\ Finish(s, [r EXCEPT !.status = 404])
            /\ UNCHANGED <<inventoryDB, deleted>>
       ELSE IF Truthy(heap[item[1]].photoPath)
       THEN /\ Continue(s, [r EXCEPT !.pc = "unlink", !.item = item,
                                     !.path = heap[item[1]].photoPath,
                                     !.old = heap[item[1]].photoPath])
            /\ UNCHANGED <<inventoryDB, deleted>>
       ELSE /\ inventoryDB' = DeleteKey(inventoryDB, id)
            /\ deleted' = deleted \cup {id}
            /\ Finish(s, [r EXCEPT !.status = 200, !.item = item])
    /\ Accept
    /\ UNCHANGED <<heap, files, now, uuids, uploads, registered>>

\* Line 288: the effect of fs.unlink(item.photoPath); a failure is logged.
DeleteUnlink(s, ok) ==
    LET r == reqs[s] IN
    /\ r.route = "DELETE /inventory/:id"
    /\ r.pc = "unlink"
    /\ files' = IF ok /\ r.path[1] \in DOMAIN files THEN Unlinked(files, r.path[1]) ELSE files
    /\ Continue(s, [r EXCEPT !.pc = "unlinked", !.ok = ok /\ r.path[1] \in DOMAIN files])
    /\ UNCHANGED <<inventoryDB, heap, now, uuids, uploads, registered, deleted, accepted>>

\* A delete that gives up when the unlink failed: the record stays, the answer
\* is an error.
DeleteAfterUnlink_GiveUp(s) ==
    LET r == reqs[s] IN
    /\ r.route = "DELETE /inventory/:id"
    /\ r.pc = "unlinked"
    /\ IF r.ok
       THEN /\ inventoryDB' = DeleteKey(inventoryDB, r.id)
            /\ deleted' = deleted \cup {r.id}
            /\ Finish(s, [r EXCEPT !.status = 200])
       ELSE /\ Finish(s, [r EXCEPT !.status = 500])
            /\ UNCHANGED <<inventoryDB, deleted>>
    /\ UNCHANGED <<heap, files, now, uuids, uploads, registered, accepted>>

\* Lines 292-293, after the await.
DeleteAfterUnlink(s) ==
    LET r == reqs[s] IN
    /\ r.route = "DELETE /inventory/:id"
    /\ r.pc = "unlinked"
    /\ inventoryDB' = DeleteKey(inventoryDB, r.id)
    /\ deleted' = deleted \cup {r.id}
    /\ Finish(s, [r EXCEPT !.status = 200])
    /\ UNCHANGED <<heap, files, now, uuids, uploads, registered, accepted>>

----------------------------------------------------------------------------
\* PUT /inventory/:id/photo, lines 354-360: the item is looked up once, the
\* body is collected by the 'data' and 'end' listeners.
PutPhoto(s, id, bytes) ==
    LET item == Lookup(inventoryDB, id)
        r == [IdleReq EXCEPT !.route = "PUT /inventory/:id/photo", !.id = id]
    IN
    /\ Accepts(s)
    /\ IF item = None
       THEN Finish(s, [r EXCEPT !.status = 404])
       ELSE Continue(s, [r EXCEPT !.pc = "body", !.item = item, !.data = Some(bytes)])
    /\ Accept
    /\ UNCHANGED <<inventoryDB, heap, files, now, uuids, uploads, registered, deleted>>

\* Lines 361-372: the 'end' listener up to its first await.
PhotoEnd(s, t) ==
    LET r == reqs[s]
        item == heap[r.item[1]]
    IN
    /\ r.route = "PUT /inventory/:id/photo"
    /\ r.pc = "body"
    /\ IF r.data[1] = ""
       THEN Finish(s, [r EXCEPT !.status = 400])
       ELSE IF Truthy(item.photoPath)
       THEN Continue(s, [r EXCEPT !.pc = "unlink", !.path = item.photoPath,
                                  !.old = item.photoPath])
       ELSE Continue(s, [r EXCEPT !.pc = "write", !.path = Some(newPhotoPath(r.id, t))])
    /\ (r.data[1] = "" \/ Truthy(item.photoPath)) => t = now
    /\ now' = t
    /\ UNCHANGED <<inventoryDB, heap, files, uuids, uploads, registered, deleted, accepted>>

\* A replacement that never releases the previous blob.
PhotoUnlink_Keep(s, ok) ==
    LET r == reqs[s] IN
    /\ r.route = "PUT /inventory/:id/photo"
    /\ r.pc = "unlink"
    /\ Continue(s, [r EXCEPT !.pc = "unlinked", !.ok = FALSE])
    /\ UNCHANGED <<inventoryDB, heap, files, now, uuids, uploads, registered, deleted, accepted>>

\* Line 369: the effect of fs.unlink(item.photoPath); a failure is logged.
PhotoUnlink(s, ok) ==
    LET r == reqs[s] IN
    /\ r.route = "PUT /inventory/:id/photo"
    /\ r.pc = "unlink"
    /\ files' = IF ok /\ r.path[1] \in DOMAIN files THEN Unlinked(files, r.path[1]) ELSE files
    /\ Continue(s, [r EXCEPT !.pc = "unlinked", !.ok = ok /\ r.path[1] \in DOMAIN files])
    /\ UNCHANGED <<inventoryDB, heap, now, uuids, uploads, registered, deleted, accepted>>

\* Lines 372-374, after the await: the new path is named and the write starts.
PhotoAfterUnlink(s, t) ==
    LET r == reqs[s] IN
    /\ r.route = "PUT /inventory/:id/photo"
    /\ r.pc = "unlinked"
    /\ Continue(s, [r EXCEPT !.pc = "write", !.path = Some(newPhotoPath(r.id, t))])
    /\ now' = t
    /\ UNCHANGED <<inventoryDB, heap, files, uuids, uploads, registered, deleted, accepted>>

\* Line 374: the effect of fs.writeFile(newPhotoPath, newPhotoData).  A failed
\* write leaves either nothing or a truncated file.
PhotoWrite(s, ok, truncated) ==
    LET r == reqs[s] IN
    /\ r.route = "PUT /inventory/:id/photo"
    /\ r.pc = "write"
    /\ files' = IF ok THEN WrittenFile(files, r.path[1], r.data[1])
                ELSE IF truncated THEN WrittenFile(files, r.path[1], "")
                ELSE files
    /\ Continue(s, [r EXCEPT !.pc = "written", !.ok = ok])
    /\ UNCHANGED <<inventoryDB, heap, now, uuids, uploads, registered, deleted, accepted>>

\* Lines 375-379, after the await.
PhotoAfterWrite(s) ==
    LET r == reqs[s] IN
    /\ r.route = "PUT /inventory/:id/photo"
    /\ r.pc = "written"
    /\ IF r.ok
       THEN /\ heap' = [heap EXCEPT ![r.item[1]].photoPath = r.path]
            /\ Finish(s, [r EXCEPT !.status = 200])
       ELSE /\ Finish(s, [r EXCEPT !.status = 500])
            /\ UNCHANGED heap
    /\ UNCHANGED <<inventoryDB, files, now, uuids, uploads, registered, deleted, accepted>>

----------------------------------------------------------------------------
\* One step of the service.  Outcomes: the results a file operation can have
\* (TRUE: it succeeds); serial: a request is accepted only when no other is
\* in flight.
Step(Outcomes, serial) ==
    \/ \E s \in Slots, name \in NameInputs, description \in DescriptionInputs,
          photo \in PhotoInputs :
          (serial => Quiescent) /\ PostRegister(s, name, description, photo)
    \/ \E s \in Slots, ok \in Outcomes, kept \in BOOLEAN : FormParse(s, ~ok, kept)
    \/ \E s \in Slots : RegisterCallback(s)
    \/ \E s \in Slots, ok \in Outcomes : RegisterUnlink(s, ok)
    \/ (serial => Quiescent) /\ GetInventory
    \/ \E id \in IdInputs : (serial => Quiescent) /\ GetInventoryItem(id)
    \/ \E id \in IdInputs, name \in UpdateNameInputs,
          description \in UpdateDescriptionInputs :
          (serial => Quiescent) /\ PutInventory(id, name, description)
    \/ \E id \in IdInputs, flag \in FlagInputs :
          (serial => Quiescent) /\ GetSearch(id, flag)
    \/ \E id \in IdInputs, flag \in FlagInputs :
          (serial => Quiescent) /\ PostSearch(id, flag)
    \/ \E s \in Slots, id \in IdInputs : (serial => Quiescent) /\ DeleteInventory(s, id)
    \/ \E s \in Slots, ok \in Outcomes : DeleteUnlink(s, ok)
    \/ \E s \in Slots : DeleteAfterUnlink(s)
    \/ \E s \in Slots, id \in IdInputs, bytes \in BodyInputs :
          (serial => Quiescent) /\ PutPhoto(s, id, bytes)
    \/ \E s \in Slots, t \in Clock : PhotoEnd(s, t)
    \/ \E s \in Slots, ok \in Outcomes : PhotoUnlink(s, ok)
    \/ \E s \in Slots, t \in Clock : PhotoAfterUnlink(s, t)
    \/ \E s \in Slots, ok \in Outcomes, truncated \in BOOLEAN : PhotoWrite(s, ok, truncated)
    \/ \E s \in Slots : PhotoAfterWrite(s)

\* Every interleaving of the handlers' steps, file operations failing or not.
Next == Step(BOOLEAN, FALSE)

Spec == Init /\ [][Next]_vars

\* Every interleaving, no file operation fails.
NextReliable == Step({TRUE}, FALSE)

SpecReliable == Init /\ [][NextReliable]_vars

\* One request at a time, file operations failing or not.
NextSerial == Step(BOOLEAN, TRUE)

SpecSerial == Init /\ [][NextSerial]_vars

\* One request at a time, no file operation fails.
NextSerialReliable == Step({TRUE}, TRUE)

SpecSerialReliable == Init /\ [][NextSerialReliable]_vars

----------------------------------------------------------------------------
\* Vocabulary of the properties.

\* The records of the inventory: the keys that a registration created and that
\* are still in the mapping.
LiveIds == DOMAIN inventoryDB \cap registered

SearchRoutes == {"GET /search", "POST /search"}

PhotoPaths(id) == {newPhotoPath(id, t) : t \in 1..MaxTime}

----------------------------------------------------------------------------
\* C1: whenever no request is in flight, every live record whose photo
\* reference is present points to a file that exists in the cache directory.
C1_NoDanglingReference ==
    Quiescent =>
        \A k \in LiveIds :
            Truthy(heap[k].photoPath) => heap[k].photoPath[1] \in DOMAIN files

\* C2: a replace-photo on a live record that had a photo and that answers 500
\* (the new write failed) leaves the previous blob in place and the record
\* still referencing it.
C2_FailedWriteKeepsPreviousBlob ==
    (/\ resp.route = "PUT /inventory/:id/photo"
     /\ resp.status = 500
     /\ resp.id \in LiveIds
     /\ resp.old # None)
    => /\ heap[resp.id].photoPath = resp.old
       /\ resp.old[1] \in DOMAIN files

\* C3: a registration that was rejected (parse failure, or missing name) and
\* had uploaded a photo leaves no uploaded file behind and creates no record.
C3_RejectedRegistrationLeavesNoFile ==
    (/\ resp.route = "POST /register"
     /\ resp.status \in {400, 500}
     /\ resp.path # None)
    => /\ resp.path[1] \notin DOMAIN files
       /\ resp.item = None

\* C4: every entry of the listing is a record that an earlier registration
\* returned and that no completed delete removed.
C4_ListingOnlyRegisteredIds ==
    resp.route = "GET /inventory" =>
        \A v \in resp.body : v.id # None /\ v.id[1] \in registered \ deleted

\* C5: a delete of a live record unlinks the blob while the record is still
\* there, answers 200 whether or not the unlink succeeded, removes the record
\* (every later get of the id is 404), and after a successful unlink the old
\* blob file is gone.
C5_DeleteReleasesBlobAndRecord ==
    /\ \A s \in Slots :
          (/\ reqs[s].route = "DELETE /inventory/:id"
           /\ reqs[s].pc \in {"unlink", "unlinked"}
           /\ reqs[s].id \in registered)
          => reqs[s].id \in DOMAIN inventoryDB
    /\ (/\ resp.route = "DELETE /inventory/:id"
        /\ resp.id \in registered
        /\ resp.item # None)
       => /\ resp.status = 200
          /\ resp.id \in deleted
          /\ (resp.old # None /\ resp.ok) => resp.old[1] \notin DOMAIN files
    /\ \A id \in deleted \cap registered : Lookup(inventoryDB, id) = None
    /\ (resp.route = "GET /inventory/:id" /\ resp.id \in deleted \cap registered)
       => resp.status = 404

\* C5 witness: a delete of a live record whose blob could not be unlinked has
\* answered 200 and the record is gone.
C5_Witness ==
    /\ resp.route = "DELETE /inventory/:id"
    /\ resp.status = 200
    /\ resp.id \in registered
    /\ resp.old # None
    /\ ~resp.ok
    /\ resp.old[1] \in DOMAIN files
    /\ resp.id \notin DOMAIN inventoryDB

\* C6: after a completed replacement on a live record (requests one at a time,
\* no file operation failing) the record references the new blob, the new
\* blob holds the uploaded bytes, the previous blob is gone, and every file of
\* the directory is the photo of exactly one object: none is left over.
C6_OneBlobAfterReplacement ==
    (/\ resp.route = "PUT /inventory/:id/photo"
     /\ resp.status = 200
     /\ resp.id \in LiveIds)
    => /\ heap[resp.id].photoPath = resp.path
       /\ resp.path[1] \in DOMAIN files
       /\ files[resp.path[1]] = resp.data[1]
       /\ (resp.old # None /\ resp.old # resp.path) => resp.old[1] \notin DOMAIN files
       /\ \A p \in DOMAIN files :
             Cardinality({ref \in DOMAIN heap : heap[ref].photoPath = Some(p)}) = 1

\* C6 witness: the second replacement in a row has completed: the blob it
\* released was itself written by a replacement.
C6_Witness ==
    /\ resp.route = "PUT /inventory/:id/photo"
    /\ resp.status = 200
    /\ resp.id \in LiveIds
    /\ resp.old # None
    /\ resp.old[1] \in PhotoPaths(resp.id)
    /\ resp.old # resp.path

ActingIds ==
    {reqs[s].id : s \in {t \in Slots : reqs'[t] # reqs[t]}}
        \cup {reqs'[s].id : s \in {t \in Slots : reqs'[t] # reqs[t]}}
        \cup {resp'.id}

C10_NoUnreferencedFile ==
    Quiescent =>
        \A p \in DOMAIN files \ PhotoPaths("constructor") :
            \E k \in LiveIds : heap[k].photoPath = Some(p)

====
